---- MODULE Spec2Model ----
(***************************************************************************)
(* AdSmartX bidder adapter (modules/adsmartxBidAdapter.js).                *)
(*                                                                         *)
(* The adapter is synchronous handlers the host calls one at a time        *)
(* (isBidRequestValid, buildRequests, interpretResponse, getUserSyncs) and *)
(* one module-level variable, syncParams, that buildRequests writes and    *)
(* getUserSyncs reads.  A state of the model is the value of syncParams    *)
(* and the record of the handler call in progress: its arguments and what  *)
(* it returned or threw.  auctions is a history variable: what the last    *)
(* two auctions handed to buildRequests, kept under SpecAuctions, and what *)
(* the last auction handed to it and sent, kept under SpecSent.            *)
(***************************************************************************)
EXTENDS Integers, Sequences, FiniteSets, TLC

VARIABLES syncParams, call, auctions

vars == <<syncParams, call, auctions>>

(***************************************************************************)
(* JavaScript values.  Primitives and arrays carry a type tag; an object   *)
(* is a function from its keys to values.  An input object is written with *)
(* all the keys the adapter reads, an absent key holding Undefined (a read *)
(* of an absent key yields undefined); an object the adapter builds has    *)
(* exactly the keys the code sets.                                         *)
(***************************************************************************)
Undefined == [type |-> "undefined"]
Null == [type |-> "null"]
Num(n) == [type |-> "number", num |-> n]
Str(s) == [type |-> "string", str |-> s]
Bool(b) == [type |-> "boolean", bool |-> b]
Arr(s) == [type |-> "array", items |-> s]

\* An uncaught TypeError leaving a handler (property read of null/undefined).
TypeError == [type |-> "TypeError"]

EmptyObj == [k \in {} |-> Undefined]

IsObject(v) == "type" \notin DOMAIN v

\* v == null
IsNullish(v) == v = Undefined \/ v = Null

\* ToBoolean(v)
Truthy(v) ==
  IF IsObject(v) THEN TRUE
  ELSE v \notin {Undefined, Null, Num(0), Str(""), Bool(FALSE)}

\* Array.isArray(v)
IsArray(v) == (~IsObject(v)) /\ v.type = "array"

\* a || b
Or(a, b) == IF Truthy(a) THEN a ELSE b

\* v[k] for a value that is not null/undefined: a primitive has no own keys.
Prop(v, k) ==
  IF IsObject(v) /\ k \in DOMAIN v THEN v[k] ELSE Undefined

\* o[k] = v on an object
Set(o, k, v) == [x \in (DOMAIN o) \cup {k} |-> IF x = k THEN v ELSE o[x]]

HasKey(o, k) == IsObject(o) /\ k \in DOMAIN o

\* v <= 0 for the numbers the model passes as dimensions
LE0(v) == v.type = "number" /\ v.num <= 0

(***************************************************************************)
(* Constants of the module.                                                *)
(***************************************************************************)
BIDDER_CODE == "adsmartx"
ENDPOINT_URL == "https://ads.adsmartx.com/ads/rtb/prebid/js"
DEFAULT_CURRENCY == "USD"
DEFAULT_TTL == 60
BANNER == "banner"
VIDEO == "video"

(***************************************************************************)
(* Bounds of the model.                                                    *)
(***************************************************************************)
MaxDim == 1        \* video w/h range over -MaxDim..MaxDim
MaxBids == 2       \* longest descriptor list passed to buildRequests
MaxSeats == 2      \* longest seatbid list of a response
MaxBidRecs == 2    \* longest bid list of a seat group

(***************************************************************************)
(* isBidRequestValid.  The two definitions before it are the same code     *)
(* with one slip each: the height check left out, and mediaTypes read      *)
(* without the optional chaining.                                          *)
(***************************************************************************)
isBidRequestValid_noHeight(bid) ==
  LET mediaTypes == bid.mediaTypes
      video == IF IsNullish(mediaTypes) THEN Undefined ELSE mediaTypes[VIDEO]
  IN  IF Truthy(video)
      THEN IF (~Truthy(Prop(video, "mimes"))) \/ (~IsArray(Prop(video, "mimes")))
              \/ Len(Prop(video, "mimes").items) = 0
           THEN Bool(FALSE)
           ELSE IF (~IsNullish(Prop(video, "w"))) /\ LE0(Prop(video, "w"))
           THEN Bool(FALSE)
           ELSE Bool(TRUE)
      ELSE Bool(TRUE)

isBidRequestValid_noOptionalChaining(bid) ==
  LET mediaTypes == bid.mediaTypes
  IN  IF IsNullish(mediaTypes) THEN TypeError
      ELSE LET video == mediaTypes[VIDEO]
           IN  IF Truthy(video)
               THEN IF (~Truthy(Prop(video, "mimes"))) \/ (~IsArray(Prop(video, "mimes")))
                       \/ Len(Prop(video, "mimes").items) = 0
                    THEN Bool(FALSE)
                    ELSE IF (~IsNullish(Prop(video, "w"))) /\ LE0(Prop(video, "w"))
                    THEN Bool(FALSE)
                    ELSE IF (~IsNullish(Prop(video, "h"))) /\ LE0(Prop(video, "h"))
                    THEN Bool(FALSE)
                    ELSE Bool(TRUE)
               ELSE Bool(TRUE)

isBidRequestValid(bid) ==
  LET mediaTypes == bid.mediaTypes
      \* mediaTypes?.[VIDEO]
      video == IF IsNullish(mediaTypes) THEN Undefined ELSE mediaTypes[VIDEO]
  IN  IF Truthy(video)
      THEN IF (~Truthy(Prop(video, "mimes"))) \/ (~IsArray(Prop(video, "mimes")))
              \/ Len(Prop(video, "mimes").items) = 0
           THEN Bool(FALSE)
           ELSE IF (~IsNullish(Prop(video, "w"))) /\ LE0(Prop(video, "w"))
           THEN Bool(FALSE)
           ELSE IF (~IsNullish(Prop(video, "h"))) /\ LE0(Prop(video, "h"))
           THEN Bool(FALSE)
           ELSE Bool(TRUE)
      ELSE Bool(TRUE)

(***************************************************************************)
(* Inputs of isBidRequestValid: a descriptor with no mediaTypes, or with   *)
(* any combination of a banner spec and a video spec.                      *)
(***************************************************************************)
MimesVals ==
  {Undefined, Null, Str("video/mp4"), Arr(<<>>), Arr(<<Str("video/mp4")>>)}

DimVals == {Undefined, Null} \cup {Num(n) : n \in (0 - MaxDim)..MaxDim}

VideoSpecs == [mimes : MimesVals, w : DimVals, h : DimVals]

BannerSpec == [sizes |-> Arr(<<<<300, 250>>, <<728, 90>>>>)]

MediaTypesVals ==
  {Undefined} \cup [banner : {Undefined, BannerSpec}, video : {Undefined} \cup VideoSpecs]

ValidateBids == [bidId : {Str("1abc")}, mediaTypes : MediaTypesVals, params : {Undefined}]

(***************************************************************************)
(* interpretResponse.  bidResponseOf is the body of the forEach callback   *)
(* for one seat group's first bid record; forEachSeatbid is the loop, that *)
(* an exception of the callback leaves at once.                            *)
(***************************************************************************)
mediaTypeOf_looseSwitch(bidResponse, bid) ==
  LET mtype == Prop(bid, "mtype")
      defaulted == IF IsNullish(mtype)
                   THEN Set(bidResponse, "mediaType", Str(BANNER))
                   ELSE bidResponse
  IN  CASE mtype \in {Num(1), Str("1")} -> Set(defaulted, "mediaType", Str(BANNER))
        [] mtype \in {Num(2), Str("2")} ->
             Set(Set(defaulted, "mediaType", Str(VIDEO)), "vastXml", Prop(bid, "adm"))
        [] OTHER -> defaulted

\* lines 216-232: the mtype == null default, then the switch on bid.mtype
mediaTypeOf(bidResponse, bid) ==
  LET mtype == Prop(bid, "mtype")
      defaulted == IF IsNullish(mtype)
                   THEN Set(bidResponse, "mediaType", Str(BANNER))
                   ELSE bidResponse
  IN  CASE mtype = Num(1) -> Set(defaulted, "mediaType", Str(BANNER))
        [] mtype = Num(2) ->
             Set(Set(defaulted, "mediaType", Str(VIDEO)), "vastXml", Prop(bid, "adm"))
        [] OTHER -> defaulted

dealIdOf_always(bidResponse, bid) ==
  Set(bidResponse, "dealId", Prop(bid, "dealid"))

\* lines 234-237
dealIdOf(bidResponse, bid) ==
  IF Truthy(Prop(bid, "dealid"))
  THEN Set(bidResponse, "dealId", Prop(bid, "dealid"))
  ELSE bidResponse

\* lines 199-239; bid is not null/undefined
bidResponseOf(bidResp, bid) ==
  LET bidResponse ==
        [requestId |-> Prop(bid, "impid"),
         cpm |-> Prop(bid, "price"),
         currency |-> Or(Prop(bidResp, "cur"), Str(DEFAULT_CURRENCY)),
         width |-> Prop(bid, "w"),
         height |-> Prop(bid, "h"),
         ad |-> Prop(bid, "adm"),
         creativeId |-> Prop(bid, "crid"),
         netRevenue |-> Bool(TRUE),
         ttl |-> Num(DEFAULT_TTL),
         meta |-> [advertiserDomains |-> Or(Prop(bid, "adomain"), Arr(<<>>))]]
  IN  dealIdOf(mediaTypeOf(bidResponse, bid), bid)

\* lines 196-244
RECURSIVE forEachSeatbid(_, _, _, _)
forEachSeatbid(bidResp, seats, i, responses) ==
  IF i > Len(seats) THEN Arr(responses)
  ELSE LET seatbid == seats[i]
       IN  \* seatbid.bid of a null/undefined element
           IF IsNullish(seatbid) THEN TypeError
           ELSE LET bids == Prop(seatbid, "bid")
                IN  IF IsArray(bids) /\ Len(bids.items) > 0
                    THEN \* bid.impid of a null/undefined first record
                         IF IsNullish(bids.items[1]) THEN TypeError
                         ELSE forEachSeatbid(bidResp, seats, i + 1,
                                Append(responses, bidResponseOf(bidResp, bids.items[1])))
                    ELSE forEachSeatbid(bidResp, seats, i + 1, responses)

interpretResponse_matchImp(serverResponse, request) ==
  LET bidResp == IF Truthy(serverResponse) THEN Prop(serverResponse, "body")
                 ELSE serverResponse
  IN  IF (~Truthy(bidResp)) \/ ~IsArray(Prop(bidResp, "seatbid"))
      THEN Arr(<<>>)
      ELSE LET all == forEachSeatbid(bidResp, Prop(bidResp, "seatbid").items, 1, <<>>)
               matches(bid) == \E i \in 1..Len(request.data.imp) :
                                 request.data.imp[i].id = bid.requestId
           IN  IF all = TypeError \/ request = Undefined THEN all
               ELSE Arr(SelectSeq(all.items, matches))

\* lines 187-245; the request argument is never read
interpretResponse(serverResponse, request) ==
  LET bidResp == IF Truthy(serverResponse) THEN Prop(serverResponse, "body")
                 ELSE serverResponse
  IN  IF (~Truthy(bidResp)) \/ ~IsArray(Prop(bidResp, "seatbid"))
      THEN Arr(<<>>)
      ELSE forEachSeatbid(bidResp, Prop(bidResp, "seatbid").items, 1, <<>>)

(***************************************************************************)
(* Inputs of interpretResponse.  BidRecords vary the markup-type code and  *)
(* the deal id together and every other field alone; a bid list is one of  *)
(* these records followed by further records the adapter must ignore.      *)
(***************************************************************************)
BidRecord ==
  [id |-> Str("1abc"), impid |-> Str("1abc"), price |-> Num(15),
   adm |-> Str("<div>Ad</div>"), w |-> Num(300), h |-> Num(250),
   crid |-> Str("creative123"), adomain |-> Arr(<<Str("example.com")>>),
   dealid |-> Undefined, mtype |-> Undefined]

\* a record of another impression, second in its bid list
OtherRecord ==
  [id |-> Str("2xyz"), impid |-> Str("2xyz"), price |-> Num(99),
   adm |-> Str("<VAST/>"), w |-> Num(640), h |-> Num(480),
   crid |-> Str("creative456"), adomain |-> Arr(<<Str("other.com")>>),
   dealid |-> Str("deal456"), mtype |-> Num(2)]

BareRecord ==
  [id |-> Undefined, impid |-> Undefined, price |-> Undefined,
   adm |-> Undefined, w |-> Undefined, h |-> Undefined,
   crid |-> Undefined, adomain |-> Undefined,
   dealid |-> Undefined, mtype |-> Undefined]

MtypeVals == {Undefined, Null, Num(1), Num(2), Num(3), Str("1"), Str("2")}

DealIdVals == {Undefined, Null, Str(""), Str("deal123")}

BidRecords ==
  {[BidRecord EXCEPT !.mtype = m, !.dealid = d] : m \in MtypeVals, d \in DealIdVals}
  \cup {[BidRecord EXCEPT !.price = Undefined], [BidRecord EXCEPT !.adomain = Undefined],
        [BidRecord EXCEPT !.adomain = Null], [BidRecord EXCEPT !.impid = Str("nomatch")],
        BareRecord, OtherRecord}

RECURSIVE SeqsUpTo(_, _)
SeqsUpTo(S, n) ==
  IF n = 0 THEN {<<>>}
  ELSE LET shorter == SeqsUpTo(S, n - 1)
       IN  shorter \cup {Append(s, x) : s \in shorter, x \in S}

\* what follows the first record of a bid list
BidTails == SeqsUpTo({OtherRecord}, MaxBidRecs - 1)

\* seat groups with one of every kind of bid field, for the lists of seat groups
SeatGroupKinds ==
  {Null, Num(5),
   [seat |-> Str("s"), bid |-> Undefined],
   [seat |-> Str("s"), bid |-> Str("nolist")],
   [seat |-> Str("s"), bid |-> Arr(<<>>)],
   [seat |-> Str("s"), bid |-> Arr(<<Null>>)],
   [seat |-> Str("s"), bid |-> Arr(<<BidRecord>>)],
   [seat |-> Str("s"), bid |-> Arr(<<OtherRecord>>)]}
  \cup {[seat |-> Str("s"), bid |-> Arr(<<BidRecord>> \o t)] : t \in BidTails}

\* one seat group holding any record of BidRecords first
SingleSeatLists ==
  {<<[seat |-> Str("s"), bid |-> Arr(<<r>> \o t)]>> : r \in BidRecords, t \in BidTails}

CurVals == {Undefined, Str(""), Str("EUR")}

ServerResponses ==
  {Undefined, Null, [body |-> Undefined], [body |-> Null],
   [body |-> [cur |-> Undefined, seatbid |-> Undefined]],
   [body |-> [cur |-> Undefined, seatbid |-> Str("nolist")]],
   [body |-> [cur |-> Undefined, seatbid |-> [bid |-> Arr(<<BidRecord>>)]]]}
  \cup {[body |-> [cur |-> c, seatbid |-> Arr(s)]] :
          c \in CurVals, s \in SeqsUpTo(SeatGroupKinds, MaxSeats) \cup SingleSeatLists}

(***************************************************************************)
(* The ortbConverter library (libraries/ortbConverter/converter.js) and    *)
(* deepAccess (src/utils.js) are imported, not part of the adapter's file. *)
(* buildImp and buildRequest fill the protocol's base fields; toORTB calls *)
(* the imp hook on every bid request in order, then the request hook on    *)
(* the impressions, and lets an exception of a hook through.               *)
(***************************************************************************)
buildImp(bidRequest) == [id |-> bidRequest.bidId]

buildRequest(imps, bidderRequest) == [imp |-> Arr(imps)]

RECURSIVE deepAccess(_, _)
deepAccess(obj, path) ==
  IF path = <<>> THEN obj
  ELSE IF IsNullish(obj) THEN Undefined
  ELSE deepAccess(Prop(obj, Head(path)), Tail(path))

(***************************************************************************)
(* getPublisherUserId                                                      *)
(***************************************************************************)
getPublisherUserId_ortb2First(bidParams, bidderRequest) ==
  LET ortb2UserId == deepAccess(bidderRequest, <<"ortb2", "user", "id">>)
  IN  IF Truthy(ortb2UserId) THEN ortb2UserId
      ELSE IF Truthy(Prop(bidParams, "sspUserId")) THEN Prop(bidParams, "sspUserId")
      ELSE Null

getPublisherUserId(bidParams, bidderRequest) ==
  IF (~IsNullish(bidParams)) /\ Truthy(Prop(bidParams, "sspUserId"))
  THEN Prop(bidParams, "sspUserId")
  ELSE LET ortb2UserId == deepAccess(bidderRequest, <<"ortb2", "user", "id">>)
       IN  IF Truthy(ortb2UserId) THEN ortb2UserId ELSE Null

(***************************************************************************)
(* converter.imp                                                           *)
(***************************************************************************)
\* { ...mediaTypes[VIDEO] }: the keys the video spec has
Spread(o) == [k \in {x \in DOMAIN o : o[x] # Undefined} |-> o[k]]

\* mediaTypes[BANNER].sizes.map(([w, h]) => ({ w, h }))
bannerFormat(sizes) ==
  Arr([i \in 1..Len(sizes.items) |-> [w |-> sizes.items[i][1], h |-> sizes.items[i][2]]])

bidfloorOf_present(base, bidRequest) ==
  IF Truthy(bidRequest.params) /\ Prop(bidRequest.params, "bidfloor") # Undefined
  THEN Set(base, "bidfloor", Prop(bidRequest.params, "bidfloor"))
  ELSE base

\* lines 50-55
bidfloorOf(base, bidRequest) ==
  IF Truthy(bidRequest.params) /\ Truthy(Prop(bidRequest.params, "bidfloor"))
  THEN Set(base, "bidfloor", Prop(bidRequest.params, "bidfloor"))
  ELSE base

imp_bothFormats(bidRequest) ==
  LET base == bidfloorOf(buildImp(bidRequest), bidRequest)
      mediaTypes == bidRequest.mediaTypes
  IN  IF IsNullish(mediaTypes) THEN TypeError
      ELSE LET withBanner ==
                 IF Truthy(mediaTypes[BANNER])
                 THEN Set(base, "banner", [format |-> bannerFormat(mediaTypes[BANNER].sizes)])
                 ELSE base
           IN  IF Truthy(mediaTypes[VIDEO])
               THEN Set(withBanner, "video", Spread(mediaTypes[VIDEO]))
               ELSE withBanner

imp_defaultBanner(bidRequest) ==
  LET base == bidfloorOf(buildImp(bidRequest), bidRequest)
      mediaTypes == bidRequest.mediaTypes
  IN  IF IsNullish(mediaTypes) THEN TypeError
      ELSE IF Truthy(mediaTypes[BANNER])
      THEN Set(base, "banner", [format |-> bannerFormat(mediaTypes[BANNER].sizes)])
      ELSE IF Truthy(mediaTypes[VIDEO])
      THEN Set(base, "video", Spread(mediaTypes[VIDEO]))
      ELSE Set(base, "banner", [format |-> Arr(<<>>)])

\* lines 46-68
imp(bidRequest) ==
  LET base == bidfloorOf(buildImp(bidRequest), bidRequest)
      mediaTypes == bidRequest.mediaTypes
  IN  \* mediaTypes[BANNER] of an undefined mediaTypes
      IF IsNullish(mediaTypes) THEN TypeError
      ELSE IF Truthy(mediaTypes[BANNER])
      THEN Set(base, "banner", [format |-> bannerFormat(mediaTypes[BANNER].sizes)])
      ELSE IF Truthy(mediaTypes[VIDEO])
      THEN Set(base, "video", Spread(mediaTypes[VIDEO]))
      ELSE base

(***************************************************************************)
(* converter.request                                                       *)
(***************************************************************************)
\* request.ext = request.ext || {}; request.ext[k] = v
SetExt(request, k, v) ==
  Set(request, "ext", Set(Or(Prop(request, "ext"), EmptyObj), k, v))

\* bids.find(bid => bid.params && bid.params[k]): its index, 0 when none
FindParam(bids, k) ==
  LET hits == {i \in 1..Len(bids) :
                 Truthy(bids[i].params) /\ Truthy(Prop(bids[i].params, k))}
  IN  IF hits = {} THEN 0 ELSE CHOOSE i \in hits : \A j \in hits : i <= j

extOf_firstBidOnly(request, bidderRequest) ==
  IF IsArray(bidderRequest.bids) /\ bidderRequest.bids.items # <<>>
  THEN LET params == bidderRequest.bids.items[1].params
           r1 == IF Truthy(params) /\ Prop(params, "testMode") = Num(1)
                 THEN SetExt(request, "test", Num(1)) ELSE request
           r2 == IF Truthy(params) /\ Truthy(Prop(params, "sspId"))
                 THEN SetExt(r1, "sspId", params.sspId) ELSE r1
       IN  IF Truthy(params) /\ Truthy(Prop(params, "siteId"))
           THEN SetExt(r2, "siteId", params.siteId) ELSE r2
  ELSE request

\* lines 76-96
extOf(request, bidderRequest) ==
  IF IsArray(bidderRequest.bids)
  THEN LET bids == bidderRequest.bids.items
           hasTestMode == \E i \in 1..Len(bids) :
                            Truthy(bids[i].params)
                            /\ Prop(bids[i].params, "testMode") = Num(1)
           sspIdBid == FindParam(bids, "sspId")
           siteIdBid == FindParam(bids, "siteId")
           r1 == IF hasTestMode THEN SetExt(request, "test", Num(1)) ELSE request
           r2 == IF sspIdBid # 0
                 THEN SetExt(r1, "sspId", bids[sspIdBid].params.sspId) ELSE r1
       IN  IF siteIdBid # 0
           THEN SetExt(r2, "siteId", bids[siteIdBid].params.siteId) ELSE r2
  ELSE request

\* lines 98-102
gdprOf(request, bidderRequest) ==
  IF Truthy(bidderRequest.gdprConsent)
  THEN Set(Set(request, "regs",
             [ext |-> [gdpr |-> IF Truthy(bidderRequest.gdprConsent.gdprApplies)
                                THEN Num(1) ELSE Num(0)]]),
           "user", [ext |-> [consent |-> bidderRequest.gdprConsent.consentString]])
  ELSE request

uspOf_replaceRegs(request, bidderRequest) ==
  IF Truthy(bidderRequest.uspConsent)
  THEN Set(request, "regs", [ext |-> [us_privacy |-> bidderRequest.uspConsent]])
  ELSE request

uspOf_always(request, bidderRequest) ==
  LET regs == Or(Prop(request, "regs"), EmptyObj)
      ext == Or(Prop(regs, "ext"), EmptyObj)
  IN  Set(request, "regs", Set(regs, "ext", Set(ext, "us_privacy", bidderRequest.uspConsent)))

\* lines 104-109
uspOf(request, bidderRequest) ==
  IF Truthy(bidderRequest.uspConsent)
  THEN LET regs == Or(Prop(request, "regs"), EmptyObj)
           ext == Or(Prop(regs, "ext"), EmptyObj)
       IN  Set(request, "regs",
               Set(regs, "ext", Set(ext, "us_privacy", bidderRequest.uspConsent)))
  ELSE request

request_flagOnly(imps, bidderRequest) ==
  LET r0 == buildRequest(imps, bidderRequest)
      r1 == Set(r0, "cur", Arr(<<Str(DEFAULT_CURRENCY)>>))
      r2 == Set(r1, "tmax", bidderRequest.timeout)
      r3 == Set(r2, "test", bidderRequest.test)
  IN  uspOf(gdprOf(extOf(r3, bidderRequest), bidderRequest), bidderRequest)

\* lines 69-112
request(imps, bidderRequest) ==
  LET r0 == buildRequest(imps, bidderRequest)
      r1 == Set(r0, "cur", Arr(<<Str(DEFAULT_CURRENCY)>>))
      r2 == Set(r1, "tmax", bidderRequest.timeout)
      r3 == Set(r2, "test", Or(bidderRequest.test, Num(0)))
  IN  uspOf(gdprOf(extOf(r3, bidderRequest), bidderRequest), bidderRequest)

\* converter.toORTB({ bidRequests, bidderRequest })
toORTB(bidRequests, bidderRequest) ==
  LET imps == [i \in 1..Len(bidRequests) |-> imp(bidRequests[i])]
  IN  IF \E i \in 1..Len(bidRequests) : imps[i] = TypeError
      THEN TypeError
      ELSE request(imps, bidderRequest)

(***************************************************************************)
(* buildRequests: what it stores in syncParams (lines 155-167) and what it *)
(* returns (lines 169-178).  The store comes first, so it is done also     *)
(* when the conversion throws.                                             *)
(***************************************************************************)
syncParamsAfter_keepFirst(validBidRequests, bidderRequest, before) ==
  IF Len(validBidRequests) > 0 /\ Truthy(validBidRequests[1].params) /\ before = EmptyObj
  THEN LET firstBid == validBidRequests[1]
       IN  [sspId |-> firstBid.params.sspId,
            siteId |-> firstBid.params.siteId,
            sspUserId |-> getPublisherUserId(firstBid.params, bidderRequest)]
  ELSE before

syncParamsAfter_resetNoParams(validBidRequests, bidderRequest, before) ==
  IF Len(validBidRequests) > 0
  THEN IF Truthy(validBidRequests[1].params)
       THEN LET firstBid == validBidRequests[1]
            IN  [sspId |-> firstBid.params.sspId,
                 siteId |-> firstBid.params.siteId,
                 sspUserId |-> getPublisherUserId(firstBid.params, bidderRequest)]
       ELSE EmptyObj
  ELSE before

syncParamsAfter_merge(validBidRequests, bidderRequest, before) ==
  IF Len(validBidRequests) > 0 /\ Truthy(validBidRequests[1].params)
  THEN LET firstBid == validBidRequests[1]
       IN  [sspId |-> Or(firstBid.params.sspId, Prop(before, "sspId")),
            siteId |-> Or(firstBid.params.siteId, Prop(before, "siteId")),
            sspUserId |-> Or(getPublisherUserId(firstBid.params, bidderRequest),
                             Prop(before, "sspUserId"))]
  ELSE before

syncParamsAfter_firstMatch(validBidRequests, bidderRequest, before) ==
  IF Len(validBidRequests) > 0 /\ Truthy(validBidRequests[1].params)
  THEN LET firstBid == validBidRequests[1]
           sspIdBid == FindParam(validBidRequests, "sspId")
           siteIdBid == FindParam(validBidRequests, "siteId")
       IN  [sspId |-> IF sspIdBid # 0 THEN validBidRequests[sspIdBid].params.sspId
                      ELSE firstBid.params.sspId,
            siteId |-> IF siteIdBid # 0 THEN validBidRequests[siteIdBid].params.siteId
                       ELSE firstBid.params.siteId,
            sspUserId |-> getPublisherUserId(firstBid.params, bidderRequest)]
  ELSE before

syncParamsAfter(validBidRequests, bidderRequest, before) ==
  IF Len(validBidRequests) > 0 /\ Truthy(validBidRequests[1].params)
  THEN LET firstBid == validBidRequests[1]
       IN  [sspId |-> firstBid.params.sspId,
            siteId |-> firstBid.params.siteId,
            sspUserId |-> getPublisherUserId(firstBid.params, bidderRequest)]
  ELSE before

buildRequests(validBidRequests, bidderRequest) ==
  LET ortb == toORTB(validBidRequests, bidderRequest)
  IN  IF ortb = TypeError THEN TypeError
      ELSE [method |-> "POST",
            url |-> ENDPOINT_URL,
            data |-> ortb,
            options |-> [endpointCompression |-> Bool(TRUE)]]

(***************************************************************************)
(* Inputs of buildRequests.  The descriptors vary the media types under    *)
(* one set of params, and the params under a banner.                       *)
(***************************************************************************)
VideoSpec == [mimes |-> Arr(<<Str("video/mp4")>>), w |-> Num(640), h |-> Undefined]

NoMimesVideoSpec == [mimes |-> Arr(<<>>), w |-> Num(640), h |-> Num(480)]

BuildMediaTypes ==
  {Undefined,
   [banner |-> Undefined, video |-> Undefined],
   [banner |-> BannerSpec, video |-> Undefined],
   [banner |-> Undefined, video |-> VideoSpec],
   [banner |-> BannerSpec, video |-> VideoSpec],
   [banner |-> BannerSpec, video |-> NoMimesVideoSpec]}

NoParams ==
  [bidfloor |-> Undefined, testMode |-> Undefined, sspId |-> Undefined,
   siteId |-> Undefined, sspUserId |-> Undefined]

ParamsA ==
  [bidfloor |-> Num(1), testMode |-> Num(1), sspId |-> Str("ssp-A"),
   siteId |-> Str("site-A"), sspUserId |-> Str("user-A")]

ParamsB ==
  [bidfloor |-> Num(0), testMode |-> Str("1"), sspId |-> Str("ssp-B"),
   siteId |-> Str(""), sspUserId |-> Undefined]

ParamsC ==
  [bidfloor |-> Undefined, testMode |-> Num(2), sspId |-> Str(""),
   siteId |-> Str("site-C"), sspUserId |-> Str("user-C")]

BuildBids ==
  {[bidId |-> Str("0"), mediaTypes |-> m, params |-> ParamsA] : m \in BuildMediaTypes}
  \cup {[bidId |-> Str("0"), mediaTypes |-> [banner |-> BannerSpec, video |-> Undefined],
         params |-> p] : p \in {Undefined, NoParams, ParamsB, ParamsC}}

\* the host numbers the bids of a batch
WithBidIds(bids) == [i \in 1..Len(bids) |-> [bids[i] EXCEPT !.bidId = Str(ToString(i))]]

BidLists == {WithBidIds(s) : s \in SeqsUpTo(BuildBids, MaxBids)}

\* a bid of the same bidder that isBidRequestValid rejected: the host keeps
\* it in bidderRequest.bids and leaves it out of validBidRequests
RejectedBid ==
  [bidId |-> Str("rejected"),
   mediaTypes |-> [banner |-> Undefined, video |-> NoMimesVideoSpec],
   params |-> [bidfloor |-> Undefined, testMode |-> Num(1), sspId |-> Str("ssp-R"),
               siteId |-> Str("site-R"), sspUserId |-> Undefined]]

\* bidderRequest.bids for a call on validBidRequests: absent, the same
\* list, or the same list and the rejected bid
BidsOf(validBidRequests) ==
  {Undefined, Arr(validBidRequests), Arr(<<RejectedBid>> \o validBidRequests)}

GdprConsents ==
  {Undefined,
   [gdprApplies |-> Bool(TRUE), consentString |-> Str("consent123")],
   [gdprApplies |-> Bool(FALSE), consentString |-> Undefined],
   [gdprApplies |-> Undefined, consentString |-> Str("")]}

UspConsents == {Undefined, Str(""), Str("1YNN")}

BidderRequests ==
  [timeout : {Num(3000)},
   test : {Undefined, Num(1)},
   gdprConsent : GdprConsents,
   uspConsent : UspConsents,
   ortb2 : {Undefined, [user |-> [id |-> Str("user/ortb2")]]},
   bids : {Undefined}]

\* The contexts a batch of several bids is built under: they vary what the
\* adapter reads together with the bids (ortb2, gdprConsent); a single bid
\* and the empty list are built under every context.
BatchContexts == {c \in BidderRequests : c.test = Undefined /\ c.uspConsent = Undefined}

\* the second argument of interpretResponse: the request the host sent
OriginalRequests ==
  {Undefined, [method |-> "POST", url |-> ENDPOINT_URL,
               data |-> [imp |-> <<[id |-> Str("1abc")]>>]]}

(***************************************************************************)
(* getUserSyncs (lines 256-314).  The sync URL is the string the code      *)
(* concatenates.  A sync descriptor is the record { type, url }.           *)
(***************************************************************************)
syncUrl == "https://ads.adsmartx.com/sync"

\* the string a value becomes in 'k=' + v, in join and in encodeURIComponent
ToStr(v) ==
  CASE v.type = "string" -> v.str
    [] v.type = "number" -> ToString(v.num)
    [] v.type = "null" -> "null"
    [] v.type = "undefined" -> "undefined"

\* The characters encodeURIComponent escapes, with their escapes (ASCII
\* only); it leaves A-Z a-z 0-9 - _ . ! ~ * ' ( ) as they are.
Escapes ==
  {<<" ", "%20">>, <<"#", "%23">>, <<"$", "%24">>, <<"%", "%25">>, <<"&", "%26">>,
   <<"+", "%2B">>, <<",", "%2C">>, <<"/", "%2F">>, <<":", "%3A">>, <<";", "%3B">>,
   <<"=", "%3D">>, <<"?", "%3F">>, <<"@", "%40">>}

escape(c) ==
  IF \E e \in Escapes : e[1] = c
  THEN (CHOOSE e \in Escapes : e[1] = c)[2]
  ELSE c

RECURSIVE escapeAll(_)
escapeAll(s) ==
  IF s = "" THEN "" ELSE escape(SubSeq(s, 1, 1)) \o escapeAll(Tail(s))

encodeURIComponent(v) == escapeAll(ToStr(v))

\* items.join(sep)
RECURSIVE join(_, _)
join(items, sep) ==
  IF items = <<>> THEN ""
  ELSE IF Len(items) = 1 THEN ToStr(items[1])
  ELSE ToStr(items[1]) \o sep \o join(Tail(items), sep)

\* v.length of a list, undefined of a value that has none
Length(v) == IF IsArray(v) THEN Num(Len(v.items)) ELSE Undefined

syncTypeOf_pixelFirst(syncOptions) ==
  IF Truthy(syncOptions.pixelEnabled) THEN "image" ELSE "iframe"

\* line 265
syncTypeOf(syncOptions) ==
  IF Truthy(syncOptions.iframeEnabled) THEN "iframe" ELSE "image"

\* lines 271-274
gdprParams(gdprConsent) ==
  IF Truthy(gdprConsent)
  THEN <<Str("gdpr=" \o ToStr(IF Truthy(Prop(gdprConsent, "gdprApplies"))
                              THEN Num(1) ELSE Num(0))),
         Str("gdpr_consent="
               \o encodeURIComponent(Or(Prop(gdprConsent, "consentString"), Str(""))))>>
  ELSE <<>>

\* lines 276-278
uspParams(uspConsent) ==
  IF Truthy(uspConsent)
  THEN <<Str("us_privacy=" \o encodeURIComponent(uspConsent))>>
  ELSE <<>>

gppParams_stringOnly(gppConsent) ==
  IF Truthy(Prop(gppConsent, "gppString"))
  THEN <<Str("gpp=" \o encodeURIComponent(gppConsent.gppString)),
         Str("gpp_sid="
               \o encodeURIComponent(
                    Str(IF IsArray(gppConsent.applicableSections)
                        THEN join(gppConsent.applicableSections.items, ",")
                        ELSE "")))>>
  ELSE <<>>

\* lines 280-283
gppParams(gppConsent) ==
  IF Truthy(Prop(gppConsent, "gppString"))
     /\ Truthy(Length(Prop(gppConsent, "applicableSections")))
  THEN <<Str("gpp=" \o encodeURIComponent(gppConsent.gppString)),
         Str("gpp_sid="
               \o encodeURIComponent(Str(join(gppConsent.applicableSections.items, ","))))>>
  ELSE <<>>

\* if (syncParams[k]) { params.push(name + '=' + encodeURIComponent(syncParams[k])) }
cacheParam(name, k) ==
  IF Truthy(Prop(syncParams, k))
  THEN <<Str(name \o "=" \o encodeURIComponent(syncParams[k]))>>
  ELSE <<>>

cacheParams_allOrNothing ==
  IF \A k \in {"sspId", "siteId", "sspUserId"} : Truthy(Prop(syncParams, k))
  THEN cacheParam("ssp_id", "sspId") \o cacheParam("ssp_site_id", "siteId")
         \o cacheParam("ssp_user_id", "sspUserId")
  ELSE <<>>

\* lines 285-299
cacheParams ==
  cacheParam("ssp_id", "sspId") \o cacheParam("ssp_site_id", "siteId")
    \o cacheParam("ssp_user_id", "sspUserId")

\* line 302
iframeParam(syncOptions) ==
  <<Str("iframe_enabled="
          \o (IF Truthy(syncOptions.iframeEnabled) THEN "true" ELSE "false"))>>

\* lines 304-305
finalUrlOf(params) ==
  syncUrl \o (IF Len(params) # 0 THEN "?" \o join(params, "&") ELSE "")

getUserSyncs_iframeFirst(syncOptions, serverResponses, gdprConsent, uspConsent, gppConsent) ==
  IF (~Truthy(syncOptions.iframeEnabled)) /\ ~Truthy(syncOptions.pixelEnabled)
  THEN Arr(<<>>)
  ELSE LET params == iframeParam(syncOptions) \o gdprParams(gdprConsent)
                       \o uspParams(uspConsent) \o gppParams(gppConsent) \o cacheParams
       IN  Arr(<<[type |-> syncTypeOf(syncOptions), url |-> finalUrlOf(params)]>>)

\* lines 256-314
getUserSyncs(syncOptions, serverResponses, gdprConsent, uspConsent, gppConsent) ==
  IF (~Truthy(syncOptions.iframeEnabled)) /\ ~Truthy(syncOptions.pixelEnabled)
  THEN Arr(<<>>)
  ELSE LET params == gdprParams(gdprConsent) \o uspParams(uspConsent)
                       \o gppParams(gppConsent) \o cacheParams
                       \o iframeParam(syncOptions)
       IN  Arr(<<[type |-> syncTypeOf(syncOptions), url |-> finalUrlOf(params)]>>)

(***************************************************************************)
(* Inputs of getUserSyncs.                                                 *)
(***************************************************************************)
SyncFlags == {Undefined, Bool(TRUE), Bool(FALSE)}

SyncOptions == [iframeEnabled : SyncFlags, pixelEnabled : SyncFlags]

\* the consent objects of buildRequests and one whose string needs escaping
SyncGdprConsents ==
  GdprConsents \cup {[gdprApplies |-> Bool(TRUE), consentString |-> Str("CPc+/w==")]}

GppSections == {Undefined, Arr(<<>>), Arr(<<Num(7)>>), Arr(<<Num(7), Num(8)>>)}

GppConsents ==
  {Undefined}
  \cup [gppString : {Str("DBABLA~1YNN")}, applicableSections : GppSections]
  \cup [gppString : {Undefined, Str("")}, applicableSections : {Arr(<<Num(7), Num(8)>>)}]

\* The responses the host passes are those of the auction that ended; the
\* adapter does not read them.  The tag says which auction that was: the
\* latest one built, or the one built before it.
ResponsesOf(auction) == Arr(<<[body |-> [id |-> auction]]>>)

Latest == "latest"

Earlier == "earlier"

(***************************************************************************)
(* The host: one handler call at a time.                                   *)
(***************************************************************************)
Idle == [op |-> "idle"]

\* no auction recorded
NoAuction == Null

Init ==
  /\ syncParams = EmptyObj
  /\ call = Idle
  /\ auctions = [earlier |-> NoAuction, latest |-> NoAuction]

IsBidRequestValid ==
  /\ call = Idle
  /\ \E bid \in ValidateBids :
       call' = [op |-> "isBidRequestValid", bid |-> bid, result |-> isBidRequestValid(bid)]
  /\ UNCHANGED <<syncParams, auctions>>

\* buildRequests called on a list of BidLists under a context of contexts;
\* a list of several bids is built under the contexts of batchContexts
BuildCall(contexts, batchContexts) ==
  /\ call = Idle
  /\ \E validBidRequests \in BidLists, context \in contexts :
       \E bids \in BidsOf(validBidRequests) :
         LET bidderRequest == [context EXCEPT !.bids = bids]
         IN  /\ Len(validBidRequests) <= 1 \/ context \in batchContexts
             /\ syncParams' = syncParamsAfter(validBidRequests, bidderRequest, syncParams)
             /\ call' = [op |-> "buildRequests",
                         validBidRequests |-> validBidRequests,
                         bidderRequest |-> bidderRequest,
                         result |-> buildRequests(validBidRequests, bidderRequest)]

BuildRequests ==
  /\ BuildCall(BidderRequests, BatchContexts)
  /\ UNCHANGED auctions

InterpretResponse ==
  /\ call = Idle
  /\ \E serverResponse \in ServerResponses, originalRequest \in OriginalRequests :
       call' = [op |-> "interpretResponse", serverResponse |-> serverResponse,
                request |-> originalRequest,
                result |-> interpretResponse(serverResponse, originalRequest)]
  /\ UNCHANGED <<syncParams, auctions>>

\* getUserSyncs called with consent signals of the given sets, when the
\* responses of one of the given auctions have come in
SyncCall(gdprConsents, uspConsents, gppConsents, ended) ==
  /\ call = Idle
  /\ \E syncOptions \in SyncOptions, gdprConsent \in gdprConsents,
        uspConsent \in uspConsents, gppConsent \in gppConsents, auction \in ended :
       call' = [op |-> "getUserSyncs",
                syncOptions |-> syncOptions,
                serverResponses |-> ResponsesOf(auction),
                gdprConsent |-> gdprConsent,
                uspConsent |-> uspConsent,
                gppConsent |-> gppConsent,
                result |-> getUserSyncs(syncOptions, ResponsesOf(auction),
                                        gdprConsent, uspConsent, gppConsent)]
  /\ UNCHANGED <<syncParams, auctions>>

GetUserSyncs == SyncCall(SyncGdprConsents, UspConsents, GppConsents, {Latest})

\* The handler has returned (or thrown) to the host, which goes on.
Return ==
  /\ call # Idle
  /\ call' = Idle
  /\ UNCHANGED <<syncParams, auctions>>

Next ==
  \/ IsBidRequestValid
  \/ BuildRequests
  \/ InterpretResponse
  \/ GetUserSyncs
  \/ Return

Spec == Init /\ [][Next]_vars

(***************************************************************************)
(* Two auctions in one page.  The host runs the builds and the syncs of    *)
(* its auctions in any order; auctions records, of the last two builds     *)
(* that had a bid, the params of the first bid and the user id of the      *)
(* context, which is what the store of syncParams reads.                   *)
(***************************************************************************)
AuctionOf(validBidRequests, bidderRequest) ==
  [params |-> validBidRequests[1].params,
   ortb2UserId |-> deepAccess(bidderRequest, <<"ortb2", "user", "id">>)]

\* the contexts of the auctions: no consent signals, with or without ortb2
AuctionContexts == {c \in BatchContexts : c.gdprConsent = Undefined}

AuctionBatchContexts == {c \in AuctionContexts : c.ortb2 = Undefined}

AuctionBuild ==
  /\ BuildCall(AuctionContexts, AuctionBatchContexts)
  /\ auctions' =
       IF Len(call'.validBidRequests) > 0
       THEN [earlier |-> auctions.latest,
             latest |-> AuctionOf(call'.validBidRequests, call'.bidderRequest)]
       ELSE auctions

\* the sync of either auction, with no consent signals
AuctionSyncs == SyncCall({Undefined}, {Undefined}, {Undefined}, {Earlier, Latest})

NextAuctions ==
  \/ AuctionBuild
  \/ AuctionSyncs
  \/ Return

SpecAuctions == Init /\ [][NextAuctions]_vars

(***************************************************************************)
(* One auction after the other: the build of an auction and the syncs      *)
(* that follow it.  auctions.latest records, with what the store reads,    *)
(* the ext of the request the build returned, which is what the bid        *)
(* request of that auction sends.                                          *)
(***************************************************************************)
SentOf(built) ==
  IF built # TypeError /\ HasKey(built.data, "ext") THEN built.data.ext ELSE EmptyObj

SentBuild ==
  /\ BuildCall(AuctionContexts, AuctionBatchContexts)
  /\ auctions' =
       IF Len(call'.validBidRequests) > 0
       THEN [earlier |-> NoAuction,
             latest |-> AuctionOf(call'.validBidRequests, call'.bidderRequest)
                          @@ [ext |-> SentOf(call'.result)]]
       ELSE auctions

\* the sync of the auction built last, with no consent signals
SentSyncs == SyncCall({Undefined}, {Undefined}, {Undefined}, {Latest})

NextSent ==
  \/ SentBuild
  \/ SentSyncs
  \/ Return

SpecSent == Init /\ [][NextSent]_vars

(***************************************************************************)
(* Properties of isBidRequestValid.                                        *)
(***************************************************************************)
Validated == call.op = "isBidRequestValid"

DeclaresVideo(bid) == bid.mediaTypes # Undefined /\ bid.mediaTypes.video # Undefined

DeclaresBanner(bid) == bid.mediaTypes # Undefined /\ bid.mediaTypes.banner # Undefined

\* mimes is missing, not a list, or an empty list
MimesMissing(video) ==
  \/ video.mimes \in {Undefined, Null}
  \/ ~IsArray(video.mimes)
  \/ video.mimes.items = <<>>

\* the dimension is present, non-null and <= 0
DimInvalid(d) == d \notin {Undefined, Null} /\ d.num <= 0

VideoRejected(video) ==
  MimesMissing(video) \/ DimInvalid(video.w) \/ DimInvalid(video.h)

\* C1: for a descriptor that declares a video spec, isBidRequestValid
\* returns false if and only if mimes is missing, not a list or empty, or the
\* width is present, non-null and <= 0, or the height is; a null or absent
\* width or height alone never rejects.
C1_VideoValidation ==
  (Validated /\ DeclaresVideo(call.bid))
    => ((call.result = Bool(FALSE)) <=> VideoRejected(call.bid.mediaTypes.video))

\* a video spec with a null width and an absent height is accepted
C1_Witness ==
  /\ Validated
  /\ DeclaresVideo(call.bid)
  /\ call.bid.mediaTypes.video.w = Null
  /\ call.bid.mediaTypes.video.h = Undefined
  /\ call.result = Bool(TRUE)

\* C2: isBidRequestValid returns a boolean and never throws; a descriptor
\* with no mediaTypes or with no video spec is accepted; a descriptor with
\* a banner and a video spec is accepted exactly when the video spec passes.
C2_ValidateTotal ==
  Validated =>
    /\ call.result \in {Bool(TRUE), Bool(FALSE)}
    /\ (~DeclaresVideo(call.bid)) => call.result = Bool(TRUE)
    /\ (DeclaresBanner(call.bid) /\ DeclaresVideo(call.bid))
         => ((call.result = Bool(TRUE)) <=> ~VideoRejected(call.bid.mediaTypes.video))

\* a descriptor without mediaTypes is accepted
C2_Witness ==
  /\ Validated
  /\ call.bid.mediaTypes = Undefined
  /\ call.result = Bool(TRUE)

(***************************************************************************)
(* Properties of buildRequests.                                            *)
(***************************************************************************)
Built == call.op = "buildRequests"

BuiltRequest == Built /\ call.result # TypeError

\* C3 (as claimed): buildRequests returns a request, and does not throw,
\* for every list made only of descriptors that isBidRequestValid accepts.
C3_BuildNeverThrows ==
  (Built /\ \A i \in 1..Len(call.validBidRequests) :
              isBidRequestValid(call.validBidRequests[i]) = Bool(TRUE))
    => call.result # TypeError

\* the impression of bid request i in the request built
ImpOf(i) == call.result.data.imp.items[i]

\* C8: an impression never has a banner and a video sub-object; the
\* impression of a descriptor that declares a banner spec (alone or with a
\* video spec) has a banner key and no video key, the impression of a
\* descriptor that declares only a video spec has a video key and no banner
\* key.
C8_BannerVideoExclusive ==
  BuiltRequest =>
    \A i \in 1..Len(call.validBidRequests) :
      LET bid == call.validBidRequests[i]
      IN  /\ ~(HasKey(ImpOf(i), "banner") /\ HasKey(ImpOf(i), "video"))
          /\ DeclaresBanner(bid)
               => (HasKey(ImpOf(i), "banner") /\ ~HasKey(ImpOf(i), "video"))
          /\ (DeclaresVideo(bid) /\ ~DeclaresBanner(bid))
               => (HasKey(ImpOf(i), "video") /\ ~HasKey(ImpOf(i), "banner"))

\* a descriptor with both specs got a banner impression
C8_Witness ==
  /\ BuiltRequest
  /\ \E i \in 1..Len(call.validBidRequests) :
       /\ DeclaresBanner(call.validBidRequests[i])
       /\ DeclaresVideo(call.validBidRequests[i])
       /\ HasKey(ImpOf(i), "banner")
       /\ ~HasKey(ImpOf(i), "video")

GdprSupplied == call.bidderRequest.gdprConsent # Undefined

\* a non-empty USP string
UspSupplied == call.bidderRequest.uspConsent \notin {Undefined, Str("")}

\* C9: the request has a regs block only if the context has a GDPR consent
\* object or a non-empty USP string, and a user block only if it has a GDPR
\* consent object; with neither, it has no regs key and no user key.
C9_ConsentBlocksOnlyIfSupplied ==
  BuiltRequest =>
    /\ HasKey(call.result.data, "regs") => (GdprSupplied \/ UspSupplied)
    /\ HasKey(call.result.data, "user") => GdprSupplied

\* built with no GDPR object and an empty USP string: no regs, no user
C9_Witness ==
  /\ BuiltRequest
  /\ ~GdprSupplied
  /\ call.bidderRequest.uspConsent = Str("")
  /\ ~HasKey(call.result.data, "regs")
  /\ ~HasKey(call.result.data, "user")

\* C10: with a GDPR consent object, regs.ext.gdpr is 1 if gdprApplies is
\* true and 0 otherwise and user.ext.consent is the raw consent string; a
\* non-empty USP string adds regs.ext.us_privacy and leaves regs.ext.gdpr
\* as it is; with the USP string alone regs.ext holds us_privacy and no
\* gdpr field.
C10_ConsentValues ==
  BuiltRequest =>
    LET data == call.result.data
        gdpr == call.bidderRequest.gdprConsent
        usp == call.bidderRequest.uspConsent
        gdprFlag == IF gdpr.gdprApplies = Bool(TRUE) THEN Num(1) ELSE Num(0)
    IN  /\ GdprSupplied =>
             /\ HasKey(data, "regs") /\ HasKey(data.regs, "ext")
             /\ HasKey(data.regs.ext, "gdpr")
             /\ data.regs.ext.gdpr = gdprFlag
             /\ HasKey(data, "user")
             /\ data.user = [ext |-> [consent |-> gdpr.consentString]]
        /\ (GdprSupplied /\ UspSupplied) =>
             data.regs = [ext |-> [gdpr |-> gdprFlag, us_privacy |-> usp]]
        /\ (GdprSupplied /\ ~UspSupplied) =>
             data.regs = [ext |-> [gdpr |-> gdprFlag]]
        /\ (UspSupplied /\ ~GdprSupplied) =>
             /\ HasKey(data, "regs")
             /\ data.regs = [ext |-> [us_privacy |-> usp]]

\* built with a GDPR object that does not apply and a USP string: both fields
C10_Witness ==
  /\ BuiltRequest
  /\ GdprSupplied
  /\ call.bidderRequest.gdprConsent.gdprApplies = Bool(FALSE)
  /\ UspSupplied
  /\ call.result.data.regs.ext = [gdpr |-> Num(0), us_privacy |-> Str("1YNN")]

\* the ext block of the request built, empty when the request has none
ExtBlock ==
  IF HasKey(call.result.data, "ext") THEN call.result.data.ext ELSE EmptyObj

\* a value that is there and is not the empty string
NonEmpty(v) == v \notin {Undefined, Null, Str("")}

\* the entries of a list that carry a non-empty params[k]
Carriers(list, k) == {i \in 1..Len(list) : NonEmpty(Prop(list[i].params, k))}

First(hits) == CHOOSE i \in hits : \A j \in hits : i <= j

\* ext is what the three scans of the list give: test, 1, exactly when an
\* entry has testMode === 1; sspId and siteId of the first entry that
\* carries one, each on its own; a field with no match is absent
ExtScanned(list) ==
  /\ HasKey(ExtBlock, "test")
       <=> \E i \in 1..Len(list) : Prop(list[i].params, "testMode") = Num(1)
  /\ HasKey(ExtBlock, "test") => ExtBlock.test = Num(1)
  /\ \A k \in {"sspId", "siteId"} :
       /\ HasKey(ExtBlock, k) <=> Carriers(list, k) # {}
       /\ HasKey(ExtBlock, k) => ExtBlock[k] = list[First(Carriers(list, k))].params[k]

\* C11 (as claimed): the request's ext.test, ext.sspId and ext.siteId are
\* the results of the three scans over the descriptors passed to
\* buildRequests.
C11_ExtFromBatch == BuiltRequest => ExtScanned(call.validBidRequests)

\* C11 (as the code has it): the three scans run over bidderRequest.bids,
\* the context's list of bids: ext.test is 1 exactly when an entry of that
\* list has testMode === 1, ext.sspId and ext.siteId are those of the first
\* entry of that list carrying a non-empty one, chosen independently; each
\* field is absent when no entry matches or the context has no bids list.
C11_ExtFromContextBids ==
  BuiltRequest =>
    IF IsArray(call.bidderRequest.bids)
    THEN ExtScanned(call.bidderRequest.bids.items)
    ELSE ExtScanned(<<>>)

\* sspId comes from the first bid and siteId from the second, no test flag
C11_Witness ==
  /\ BuiltRequest
  /\ call.bidderRequest.bids = Arr(call.validBidRequests)
  /\ Len(call.validBidRequests) = 2
  /\ call.validBidRequests[1].params = ParamsB
  /\ call.validBidRequests[2].params = ParamsC
  /\ ExtBlock = [sspId |-> Str("ssp-B"), siteId |-> Str("site-C")]

\* C12: every request built has cur = ['USD'], tmax = the context's timeout
\* and test = the context's test flag if set, else 0; the empty list gives
\* a request too, with an empty imp list, these fields, method POST, the
\* fixed endpoint URL and endpointCompression true.
C12_TopLevelFields ==
  /\ BuiltRequest =>
       /\ call.result.data.cur = Arr(<<Str("USD")>>)
       /\ call.result.data.tmax = call.bidderRequest.timeout
       /\ call.result.data.test = IF call.bidderRequest.test # Undefined
                                  THEN call.bidderRequest.test ELSE Num(0)
  /\ (Built /\ call.validBidRequests = <<>>) =>
       /\ call.result # TypeError
       /\ call.result.data.imp = Arr(<<>>)
       /\ call.result.method = "POST"
       /\ call.result.url = "https://ads.adsmartx.com/ads/rtb/prebid/js"
       /\ call.result.options = [endpointCompression |-> Bool(TRUE)]

\* the empty list built under a context without a test flag
C12_Witness ==
  /\ BuiltRequest
  /\ call.validBidRequests = <<>>
  /\ call.bidderRequest.test = Undefined
  /\ call.result.data.test = Num(0)
  /\ call.result.data.imp = Arr(<<>>)

\* the floor of a descriptor, when it is present and truthy
HasFloor(bid) == Prop(bid.params, "bidfloor") \notin {Undefined, Null, Num(0)}

\* C13: the imp list of the request built has one impression per
\* descriptor, in the order of the list, and impression i has a bidfloor
\* key, with descriptor i's params.bidfloor, exactly when that value is
\* present and truthy (a floor of 0 is not attached).
C13_ImpPerDescriptor ==
  BuiltRequest =>
    /\ Len(call.result.data.imp.items) = Len(call.validBidRequests)
    /\ \A i \in 1..Len(call.validBidRequests) :
         LET bid == call.validBidRequests[i]
         IN  /\ ImpOf(i).id = bid.bidId
             /\ HasKey(ImpOf(i), "bidfloor") <=> HasFloor(bid)
             /\ HasKey(ImpOf(i), "bidfloor") => ImpOf(i).bidfloor = bid.params.bidfloor

\* two descriptors, the first with a floor of 1 and the second with a floor
\* of 0: only the first impression has a bidfloor
C13_Witness ==
  /\ BuiltRequest
  /\ Len(call.validBidRequests) = 2
  /\ call.validBidRequests[1].params = ParamsA
  /\ call.validBidRequests[2].params = ParamsB
  /\ ImpOf(1).id = Str("1") /\ ImpOf(2).id = Str("2")
  /\ ImpOf(1).bidfloor = Num(1)
  /\ ~HasKey(ImpOf(2), "bidfloor")

\* isBidRequestValid accepts the descriptor
Accepted(bid) == isBidRequestValid(bid) = Bool(TRUE)

\* how many of the two sub-objects banner and video the impression has
Formats(impression) ==
  Cardinality({k \in {"banner", "video"} : HasKey(impression, k)})

\* C21 (as claimed): every impression built from a descriptor that
\* isBidRequestValid accepts has exactly one of banner and video, also when
\* the descriptor's mediaTypes declare neither.
C21_ExactlyOneFormat ==
  BuiltRequest =>
    \A i \in 1..Len(call.validBidRequests) :
      Accepted(call.validBidRequests[i]) => Formats(ImpOf(i)) = 1

\* C21 (as the code has it): every impression built from a descriptor that
\* isBidRequestValid accepts has at most one of banner and video: exactly
\* one when the descriptor declares a banner or a video spec, and neither
\* when its mediaTypes declare neither.
C21_AtMostOneFormat ==
  BuiltRequest =>
    \A i \in 1..Len(call.validBidRequests) :
      LET bid == call.validBidRequests[i]
      IN  Accepted(bid) =>
            Formats(ImpOf(i)) = IF DeclaresBanner(bid) \/ DeclaresVideo(bid) THEN 1 ELSE 0

\* an accepted descriptor whose mediaTypes declare neither got an
\* impression with neither sub-object
C21_Witness ==
  /\ BuiltRequest
  /\ \E i \in 1..Len(call.validBidRequests) :
       /\ call.validBidRequests[i].mediaTypes = [banner |-> Undefined, video |-> Undefined]
       /\ Accepted(call.validBidRequests[i])
       /\ ~HasKey(ImpOf(i), "banner")
       /\ ~HasKey(ImpOf(i), "video")

(***************************************************************************)
(* Properties of interpretResponse.                                        *)
(***************************************************************************)
Interpreted == call.op = "interpretResponse"

\* the response has a body with a list-valued seatbid
HasSeatbidList(serverResponse) ==
  /\ serverResponse \notin {Undefined, Null}
  /\ serverResponse.body \notin {Undefined, Null}
  /\ IsArray(serverResponse.body.seatbid)

\* the seat group's bid field is a non-empty list
Qualifies(seatbid) ==
  /\ seatbid \notin {Undefined, Null}
  /\ IsObject(seatbid)
  /\ IsArray(seatbid.bid)
  /\ seatbid.bid.items # <<>>

\* the first bid records of the qualifying seat groups, in seat-group order
FirstRecords(serverResponse) ==
  LET q == SelectSeq(serverResponse.body.seatbid.items, Qualifies)
  IN  [k \in 1..Len(q) |-> q[k].bid.items[1]]

\* C4 (as claimed): interpretResponse returns a list, and does not throw,
\* for every response.
C4_InterpretNeverThrows == Interpreted => IsArray(call.result)

\* the NormalizedBid of a bid record, as the claims describe it
NormalizedBidOf(body, rec) ==
  LET fixed == [requestId |-> Prop(rec, "impid"),
                cpm |-> Prop(rec, "price"),
                currency |-> IF body.cur \in {Undefined, Str("")}
                             THEN Str("USD") ELSE body.cur,
                width |-> Prop(rec, "w"),
                height |-> Prop(rec, "h"),
                ad |-> Prop(rec, "adm"),
                creativeId |-> Prop(rec, "crid"),
                netRevenue |-> Bool(TRUE),
                ttl |-> Num(60),
                meta |-> [advertiserDomains |->
                            IF Prop(rec, "adomain") \in {Undefined, Null}
                            THEN Arr(<<>>) ELSE rec.adomain]]
      mtype == Prop(rec, "mtype")
      media == IF mtype \in {Num(1), Undefined, Null} THEN "mediaType" :> Str("banner")
               ELSE IF mtype = Num(2)
               THEN ("mediaType" :> Str("video")) @@ ("vastXml" :> Prop(rec, "adm"))
               ELSE EmptyObj
      deal == IF Prop(rec, "dealid") \in {Undefined, Null, Str("")} THEN EmptyObj
              ELSE "dealId" :> rec.dealid
  IN  fixed @@ media @@ deal

\* C5 (as claimed): interpretResponse returns the empty list when the
\* response, its body or a list-valued seatbid is absent, and otherwise one
\* NormalizedBid per seat group whose bid field is a non-empty list, built
\* from the first bid record of that group, in seat-group order.
C5_OneBidPerSeatGroup ==
  Interpreted =>
    IF HasSeatbidList(call.serverResponse)
    THEN LET first == FirstRecords(call.serverResponse)
         IN  call.result =
               Arr([k \in 1..Len(first) |->
                      NormalizedBidOf(call.serverResponse.body, first[k])])
    ELSE call.result = Arr(<<>>)

\* interpretResponse returned a list for a response with a seatbid list
InterpretedBids ==
  Interpreted /\ HasSeatbidList(call.serverResponse) /\ IsArray(call.result)

\* the bid record the k-th NormalizedBid returned was built from
RecordOf(k) == FirstRecords(call.serverResponse)[k]

\* C6: the NormalizedBid of a bid record has media type banner when the
\* markup-type code is 1, video and vastXml = the markup when it is 2, banner
\* when the code is null or absent, and no media type when the code is any
\* other non-null value; vastXml is present if and only if the media type
\* is video.
C6_MediaType ==
  InterpretedBids =>
    /\ Len(call.result.items) = Len(FirstRecords(call.serverResponse))
    /\ \A k \in 1..Len(call.result.items) :
         LET bid == call.result.items[k]
             mtype == Prop(RecordOf(k), "mtype")
         IN  /\ mtype = Num(1) => (HasKey(bid, "mediaType") /\ bid.mediaType = Str("banner"))
             /\ mtype = Num(2) =>
                  /\ HasKey(bid, "mediaType") /\ bid.mediaType = Str("video")
                  /\ HasKey(bid, "vastXml") /\ bid.vastXml = Prop(RecordOf(k), "adm")
             /\ mtype \in {Undefined, Null} =>
                  (HasKey(bid, "mediaType") /\ bid.mediaType = Str("banner"))
             /\ mtype \notin {Undefined, Null, Num(1), Num(2)} => ~HasKey(bid, "mediaType")
             /\ HasKey(bid, "vastXml")
                  <=> (HasKey(bid, "mediaType") /\ bid.mediaType = Str("video"))

\* a bid record with the markup-type code "1", a string, got no media type
C6_Witness ==
  /\ InterpretedBids
  /\ \E k \in 1..Len(call.result.items) :
       /\ Prop(RecordOf(k), "mtype") = Str("1")
       /\ ~HasKey(call.result.items[k], "mediaType")
       /\ ~HasKey(call.result.items[k], "vastXml")

\* C7: every NormalizedBid returned has requestId = impid, cpm = price (also
\* when absent), currency = the response's cur if it has one and USD
\* otherwise, width, height, ad, creativeId = w, h, adm, crid, netRevenue
\* true, ttl 60, meta.advertiserDomains = adomain or the empty list; it has a
\* dealId key, equal to the record's dealid, when the record has a deal id,
\* and no dealId key otherwise.  An empty string is no currency and no deal
\* id, null is no domain list and no deal id.
C7_BidFields ==
  InterpretedBids =>
    /\ Len(call.result.items) = Len(FirstRecords(call.serverResponse))
    /\ \A k \in 1..Len(call.result.items) :
         LET bid == call.result.items[k]
             rec == RecordOf(k)
             body == call.serverResponse.body
         IN  /\ bid.requestId = Prop(rec, "impid")
             /\ bid.cpm = Prop(rec, "price")
             /\ bid.currency = IF body.cur \in {Undefined, Str("")}
                               THEN Str("USD") ELSE body.cur
             /\ bid.width = Prop(rec, "w")
             /\ bid.height = Prop(rec, "h")
             /\ bid.ad = Prop(rec, "adm")
             /\ bid.creativeId = Prop(rec, "crid")
             /\ bid.netRevenue = Bool(TRUE)
             /\ bid.ttl = Num(60)
             /\ bid.meta = [advertiserDomains |->
                              IF Prop(rec, "adomain") \in {Undefined, Null}
                              THEN Arr(<<>>) ELSE rec.adomain]
             /\ IF Prop(rec, "dealid") \in {Undefined, Null, Str("")}
                THEN ~HasKey(bid, "dealId")
                ELSE HasKey(bid, "dealId") /\ bid.dealId = rec.dealid

\* a record without price and without deal id: cpm undefined, no dealId key
C7_Witness ==
  /\ InterpretedBids
  /\ \E k \in 1..Len(call.result.items) :
       /\ RecordOf(k).price = Undefined
       /\ RecordOf(k).dealid = Undefined
       /\ call.result.items[k].cpm = Undefined
       /\ ~HasKey(call.result.items[k], "dealId")

(***************************************************************************)
(* Properties of the sync parameters and of getUserSyncs.  The sync URL is *)
(* read back by splitting the string at '?', '&' and '='.                  *)
(***************************************************************************)
\* s.split(sep), for a separator of one character
Split(s, sep) ==
  LET at == {i \in 1..Len(s) : SubSeq(s, i, i) = sep}
      \* the position of the k-th separator; 0 before the first piece and
      \* Len(s) + 1 after the last
      cut(k) == IF k = 0 THEN 0
                ELSE IF k > Cardinality(at) THEN Len(s) + 1
                ELSE CHOOSE i \in at : Cardinality({j \in at : j < i}) = k - 1
  IN  [k \in 1..(Cardinality(at) + 1) |-> SubSeq(s, cut(k - 1) + 1, cut(k) - 1)]

\* the character an escape stands for
Unescape(code) == (CHOOSE e \in Escapes : e[2] = code)[1]

RECURSIVE Decoded(_)
Decoded(s) ==
  IF s = "" THEN ""
  ELSE IF SubSeq(s, 1, 1) = "%"
  THEN Unescape(SubSeq(s, 1, 3)) \o Decoded(SubSeq(s, 4, Len(s)))
  ELSE SubSeq(s, 1, 1) \o Decoded(Tail(s))

\* the query parameters of a URL, in order: name and value as written
QueryOf(url) ==
  LET parts == Split(url, "?")
  IN  IF Len(parts) < 2 THEN <<>>
      ELSE LET pairs == Split(parts[2], "&")
           IN  [i \in 1..Len(pairs) |->
                  LET kv == Split(pairs[i], "=")
                  IN  [name |-> kv[1], raw |-> kv[2]]]

Synced == call.op = "getUserSyncs"

\* getUserSyncs returned a sync descriptor
SyncMade == Synced /\ call.result.items # <<>>

Url == call.result.items[1].url

HasParam(q, name) == \E i \in 1..Len(q) : q[i].name = name

\* the decoded value of a parameter of the query
ValueOf(q, name) == Decoded(q[CHOOSE i \in 1..Len(q) : q[i].name = name].raw)

\* the decoded values of the query
ValuesOf(q) == {Decoded(q[i].raw) : i \in 1..Len(q)}

\* the query has the parameter exactly when v is a non-empty value, and
\* then with that value
Emits(q, name, v) ==
  /\ HasParam(q, name) <=> NonEmpty(v)
  /\ HasParam(q, name) => ValueOf(q, name) = v.str

\* the user id the store is to resolve: the first descriptor's sspUserId
\* if present, else ortb2.user.id, else none
ResolvedUserId(params, ortb2UserId) ==
  IF NonEmpty(Prop(params, "sspUserId")) THEN params.sspUserId
  ELSE IF NonEmpty(ortb2UserId) THEN ortb2UserId
  ELSE Null

Ortb2UserIdOf(bidderRequest) ==
  IF bidderRequest.ortb2 = Undefined THEN Undefined ELSE bidderRequest.ortb2.user.id

\* C14 (as claimed): after a build on a non-empty list, syncParams holds
\* the sspId and siteId of the first descriptor's params and the user id
\* resolved from its sspUserId, else ortb2.user.id, else none; and when the
\* latest build had sspUserId = A and ortb2.user.id = B, the sync URL has
\* ssp_user_id=A and B nowhere.
C14_CacheFromFirstDescriptor ==
  /\ (Built /\ Len(call.validBidRequests) > 0) =>
       LET params == call.validBidRequests[1].params
           userId == ResolvedUserId(params, Ortb2UserIdOf(call.bidderRequest))
       IN  /\ Prop(syncParams, "sspId") = Prop(params, "sspId")
           /\ Prop(syncParams, "siteId") = Prop(params, "siteId")
           /\ IF userId = Null
              THEN Prop(syncParams, "sspUserId") \in {Undefined, Null}
              ELSE Prop(syncParams, "sspUserId") = userId
  /\ (SyncMade /\ auctions.latest # NoAuction
        /\ NonEmpty(Prop(auctions.latest.params, "sspUserId"))
        /\ NonEmpty(auctions.latest.ortb2UserId)) =>
       LET q == QueryOf(Url)
       IN  /\ HasParam(q, "ssp_user_id")
           /\ ValueOf(q, "ssp_user_id") = auctions.latest.params.sspUserId.str
           /\ auctions.latest.ortb2UserId.str \notin ValuesOf(q)

\* C15 (as claimed): whatever builds and syncs came before, the ssp_id,
\* ssp_site_id and ssp_user_id of a sync URL are the values of the first
\* descriptor of the latest build that had a descriptor, never those an
\* earlier build left.
C15_SyncsFromLatestBuild ==
  (SyncMade /\ auctions.latest # NoAuction) =>
    LET latest == auctions.latest
        q == QueryOf(Url)
    IN  /\ Emits(q, "ssp_id", Prop(latest.params, "sspId"))
        /\ Emits(q, "ssp_site_id", Prop(latest.params, "siteId"))
        /\ Emits(q, "ssp_user_id", ResolvedUserId(latest.params, latest.ortb2UserId))

\* the ids of an auction: those of its first descriptor and context
IdsOf(auction) ==
  {Prop(auction.params, "sspId"), Prop(auction.params, "siteId"),
   ResolvedUserId(auction.params, auction.ortb2UserId)}

\* C16: build of auction A, build of auction B whose first descriptor has
\* params, then the sync that A's responses trigger: the URL has B's ids
\* and none of the ids A has and B has not.
C16_LatestWriteWins ==
  (SyncMade /\ call.serverResponses = ResponsesOf(Earlier)
     /\ auctions.earlier # NoAuction /\ auctions.latest.params # Undefined) =>
    LET A == auctions.earlier
        B == auctions.latest
        q == QueryOf(Url)
    IN  /\ Emits(q, "ssp_id", Prop(B.params, "sspId"))
        /\ Emits(q, "ssp_site_id", Prop(B.params, "siteId"))
        /\ Emits(q, "ssp_user_id", ResolvedUserId(B.params, B.ortb2UserId))
        /\ \A id \in IdsOf(A) \ IdsOf(B) :
             NonEmpty(id) => id.str \notin ValuesOf(q)

\* the sync triggered by auction A, built on ParamsA, names ssp-B of
\* auction B and none of A's ids
C16_Witness ==
  /\ SyncMade
  /\ call.serverResponses = ResponsesOf(Earlier)
  /\ auctions.earlier # NoAuction /\ auctions.earlier.params = ParamsA
  /\ auctions.latest.params = ParamsB
  /\ LET q == QueryOf(Url)
     IN  /\ HasParam(q, "ssp_id") /\ ValueOf(q, "ssp_id") = "ssp-B"
         /\ ValuesOf(q) \cap {"ssp-A", "site-A", "user-A"} = {}

\* C17: getUserSyncs returns a list and does not throw: the empty list
\* when neither iframeEnabled nor pixelEnabled is truthy, else one sync
\* descriptor, of type 'iframe' when iframeEnabled is truthy (pixelEnabled
\* truthy or not) and 'image' otherwise.
C17_SyncDescriptor ==
  Synced =>
    /\ IsArray(call.result)
    /\ IF (~Truthy(call.syncOptions.iframeEnabled)) /\ ~Truthy(call.syncOptions.pixelEnabled)
       THEN call.result.items = <<>>
       ELSE /\ Len(call.result.items) = 1
            /\ call.result.items[1].type =
                 IF Truthy(call.syncOptions.iframeEnabled) THEN "iframe" ELSE "image"

\* both enabled: one iframe sync
C17_Witness ==
  /\ Synced
  /\ call.syncOptions = [iframeEnabled |-> Bool(TRUE), pixelEnabled |-> Bool(TRUE)]
  /\ Len(call.result.items) = 1
  /\ call.result.items[1].type = "iframe"

ParamOrder ==
  <<"gdpr", "gdpr_consent", "us_privacy", "gpp", "gpp_sid",
    "ssp_id", "ssp_site_id", "ssp_user_id", "iframe_enabled">>

Rank(name) == CHOOSE i \in 1..Len(ParamOrder) : ParamOrder[i] = name

IframeFlag == IF Truthy(call.syncOptions.iframeEnabled) THEN "true" ELSE "false"

C19_ConsentParams ==
  SyncMade =>
    LET gdpr == call.gdprConsent
        usp == call.uspConsent
        gpp == call.gppConsent
        q == QueryOf(Url)
        gppBoth == /\ gpp # Undefined
                   /\ NonEmpty(gpp.gppString)
                   /\ gpp.applicableSections \notin {Undefined, Arr(<<>>)}
    IN  /\ HasParam(q, "gdpr") <=> gdpr # Undefined
        /\ HasParam(q, "gdpr_consent") <=> gdpr # Undefined
        /\ gdpr # Undefined =>
             /\ ValueOf(q, "gdpr") = IF gdpr.gdprApplies = Bool(TRUE) THEN "1" ELSE "0"
             /\ ValueOf(q, "gdpr_consent") =
                  IF gdpr.consentString = Undefined THEN "" ELSE gdpr.consentString.str
        /\ Emits(q, "us_privacy", usp)
        /\ HasParam(q, "gpp") <=> gppBoth
        /\ HasParam(q, "gpp_sid") <=> gppBoth
        /\ gppBoth =>
             /\ ValueOf(q, "gpp") = gpp.gppString.str
             /\ ValueOf(q, "gpp_sid") =
                  IF Len(gpp.applicableSections.items) = 1 THEN "7" ELSE "7,8"

\* a GDPR object without a consent string and a GPP object with a string
\* and an empty section list: gdpr=0, an empty gdpr_consent, no gpp, no
\* gpp_sid
C19_Witness ==
  /\ SyncMade
  /\ call.gdprConsent = [gdprApplies |-> Bool(FALSE), consentString |-> Undefined]
  /\ call.gppConsent = [gppString |-> Str("DBABLA~1YNN"), applicableSections |-> Arr(<<>>)]
  /\ LET q == QueryOf(Url)
     IN  /\ ValueOf(q, "gdpr") = "0"
         /\ ValueOf(q, "gdpr_consent") = ""
         /\ ~HasParam(q, "gpp") /\ ~HasParam(q, "gpp_sid")

\* C20: each of ssp_id, ssp_site_id, ssp_user_id is in the sync URL,
\* whatever the other two, exactly when syncParams holds a value for it
\* (sspId, siteId, sspUserId; an empty string and null are no value) at the
\* call, and its value is the one syncParams holds.
C20_CacheParams ==
  SyncMade =>
    LET q == QueryOf(Url)
    IN  /\ Emits(q, "ssp_id", Prop(syncParams, "sspId"))
        /\ Emits(q, "ssp_site_id", Prop(syncParams, "siteId"))
        /\ Emits(q, "ssp_user_id", Prop(syncParams, "sspUserId"))

\* a cache with an sspId, an empty siteId and the user id of ortb2: ssp_id
\* and ssp_user_id, escaped, and no ssp_site_id
C20_Witness ==
  /\ SyncMade
  /\ syncParams = [sspId |-> Str("ssp-B"), siteId |-> Str(""), sspUserId |-> Str("user/ortb2")]
  /\ call.syncOptions.iframeEnabled = Bool(TRUE)
  /\ call.gdprConsent = Undefined /\ call.uspConsent = Undefined
  /\ call.gppConsent = Undefined
  /\ Url = "https://ads.adsmartx.com/sync?ssp_id=ssp-B&ssp_user_id=user%2Fortb2&iframe_enabled=true"

\* a build on a non-empty list whose first descriptor has a params object
Storing(c) ==
  /\ c.op = "buildRequests"
  /\ Len(c.validBidRequests) > 0
  /\ c.validBidRequests[1].params # Undefined

\* C22: syncParams changes only in a buildRequests call on a non-empty list
\* whose first descriptor has a params object; isBidRequestValid,
\* interpretResponse, getUserSyncs, a build on the empty list and a build
\* whose first descriptor has no params leave it as it was, so getUserSyncs
\* called again with the same arguments returns the same URL.
C22_CacheFrame ==
  [][/\ syncParams' # syncParams => Storing(call')
     /\ Synced =>
          \A syncOptions \in {call.syncOptions}, serverResponses \in {call.serverResponses},
             gdprConsent \in {call.gdprConsent}, uspConsent \in {call.uspConsent},
             gppConsent \in {call.gppConsent}, result \in {call.result} :
            getUserSyncs(syncOptions, serverResponses, gdprConsent,
                         uspConsent, gppConsent)' = result]_vars

\* a build whose first descriptor has no params, called when the cache
\* held the ids of ParamsA, has left them there
C22_Witness ==
  /\ Built
  /\ Len(call.validBidRequests) > 0
  /\ call.validBidRequests[1].params = Undefined
  /\ syncParams = [sspId |-> Str("ssp-A"), siteId |-> Str("site-A"),
                   sspUserId |-> Str("user-A")]

\* the auction recorded had a first descriptor with a params object
Stored(auction) == auction # NoAuction /\ auction.params # Undefined

\* what the build of that auction stores
StoredBy(auction) ==
  [sspId |-> auction.params.sspId,
   siteId |-> auction.params.siteId,
   sspUserId |-> ResolvedUserId(auction.params, auction.ortb2UserId)]

\* C23: the three fields of syncParams come from one build: once one of
\* the last two builds has stored, syncParams is what the later of them
\* stored, a field that build did not supply being empty whatever an
\* earlier build had set, and a sync URL has the ids of that build and no
\* id that only the other build has.
C23_OneBuildPerCache ==
  (Stored(auctions.latest) \/ Stored(auctions.earlier)) =>
    LET writer == IF Stored(auctions.latest) THEN auctions.latest ELSE auctions.earlier
        other == IF Stored(auctions.latest) THEN auctions.earlier ELSE auctions.latest
        foreign == IF Stored(other) THEN IdsOf(other) \ IdsOf(writer) ELSE {}
    IN  /\ syncParams = StoredBy(writer)
        /\ SyncMade =>
             LET q == QueryOf(Url)
             IN  /\ Emits(q, "ssp_id", StoredBy(writer).sspId)
                 /\ Emits(q, "ssp_site_id", StoredBy(writer).siteId)
                 /\ Emits(q, "ssp_user_id", StoredBy(writer).sspUserId)
                 /\ \A id \in foreign : NonEmpty(id) => id.str \notin ValuesOf(q)

\* after a build on ParamsA and a build on ParamsB, which supplies an sspId
\* only, the cache has no siteId and no user id and the sync URL has ssp_id
\* alone
C23_Witness ==
  /\ SyncMade
  /\ auctions.earlier # NoAuction /\ auctions.earlier.params = ParamsA
  /\ auctions.latest.params = ParamsB /\ auctions.latest.ortb2UserId = Undefined
  /\ syncParams = [sspId |-> Str("ssp-B"), siteId |-> Str(""), sspUserId |-> Null]
  /\ call.syncOptions.iframeEnabled = Bool(FALSE)
  /\ Url = "https://ads.adsmartx.com/sync?ssp_id=ssp-B&iframe_enabled=false"

\* the response makes interpretResponse throw: a null or absent seat group,
\* or a null or absent first record of a non-empty bid list
Throwing(serverResponse) ==
  \E i \in 1..Len(serverResponse.body.seatbid.items) :
    LET seatbid == serverResponse.body.seatbid.items[i]
    IN  \/ seatbid \in {Undefined, Null}
        \/ Qualifies(seatbid) /\ seatbid.bid.items[1] \in {Undefined, Null}

\* what the response alone determines: the empty list, an exception, or
\* the NormalizedBids of the first records
OutcomeOf(serverResponse) ==
  IF ~HasSeatbidList(serverResponse) THEN Arr(<<>>)
  ELSE IF Throwing(serverResponse) THEN TypeError
  ELSE LET first == FirstRecords(serverResponse)
       IN  Arr([k \in 1..Len(first) |-> NormalizedBidOf(serverResponse.body, first[k])])

\* C24: what interpretResponse returns is determined by the response: it
\* is the same for every request argument and whatever syncParams holds;
\* a bid record is returned with its impid as requestId whether or not the
\* request has an impression with that id.
C24_ResponseAlone ==
  Interpreted =>
    /\ call.result = OutcomeOf(call.serverResponse)
    /\ \A originalRequest \in OriginalRequests :
         interpretResponse(call.serverResponse, originalRequest) = call.result
    /\ InterpretedBids =>
         \A k \in 1..Len(call.result.items) :
           call.result.items[k].requestId = Prop(RecordOf(k), "impid")

\* the request has the impression 1abc only and the cache holds ids; the
\* record of impression 2xyz is returned
C24_Witness ==
  /\ InterpretedBids
  /\ call.request # Undefined
  /\ \A i \in 1..Len(call.request.data.imp) : call.request.data.imp[i].id = Str("1abc")
  /\ syncParams # EmptyObj
  /\ \E k \in 1..Len(call.result.items) : call.result.items[k].requestId = Str("2xyz")

\* the fields of params and their names in the sync URL
SyncNameOf == [sspId |-> "ssp_id", siteId |-> "ssp_site_id"]

\* the first bid of the build has params without a non-empty params[k]
\* and a later bid of the list carries one
LaterOnly(list, k) ==
  /\ Built /\ Len(call.validBidRequests) > 0
  /\ call.validBidRequests[1].params # Undefined
  /\ ~NonEmpty(call.validBidRequests[1].params[k])
  /\ Carriers(list, k) # {}

\* the request, when the build returns one, sends the later bid's
\* params[k], and syncParams has none
SentNotStored(list, k) ==
  /\ call.result # TypeError =>
       /\ HasKey(ExtBlock, k)
       /\ ExtBlock[k] = list[First(Carriers(list, k))].params[k]
  /\ ~NonEmpty(Prop(syncParams, k))

\* a sync after a build whose first bid has params without a non-empty
\* params[k] has no such parameter in its URL
SyncOmitsUnstored ==
  (SyncMade /\ auctions.latest # NoAuction /\ auctions.latest.params # Undefined) =>
    LET q == QueryOf(Url)
    IN  \A k \in DOMAIN SyncNameOf :
          ~NonEmpty(auctions.latest.params[k]) => ~HasParam(q, SyncNameOf[k])

====
